---- MODULE Spec2Model ----
(***************************************************************************)
(* Model of the lidar service's simulated device session                   *)
(* (app/services/fake_lidar.py, class FakeLidarSimulator).                 *)
(*                                                                         *)
(* One session object is shared by three kinds of threads:                 *)
(*   - the caller (the API side), executor 0, which invokes connect,       *)
(*     disconnect, dataStart_RT_B and dataStop one after the other;        *)
(*   - command-listener threads (_command_listener), executors             *)
(*     1..MaxListeners, which call dataStart_RT_B / dataStop themselves    *)
(*     when a command datagram arrives;                                    *)
(*   - producer threads (_generate_fake_data), 1..MaxProducers.            *)
(* Every read or write of a shared attribute is a step of its own, so all  *)
(* interleavings of the threads are explored.                              *)
(*                                                                         *)
(* Timing.  Time is not modelled.  Thread.join(timeout=1.0) returns when   *)
(* the joined thread has ended, or on its timeout.  One iteration of a     *)
(* loop takes 10 ms (producer) or at most 100 ms (listener), so the        *)
(* timeout is taken to fire only while the joined loop is not stopping:    *)
(* its loop condition holds, or it is itself blocked in such a join.       *)
(*                                                                         *)
(* The berthing views (app/api/endpoints/berthing_data.py and              *)
(* app/services/berthing_data_core.py) are functions of what the sensor    *)
(* manager holds.  Each has a specification of its own (SpecSummary,       *)
(* SpecSensor, SpecAll, SpecHistory) that starts from any manager state of *)
(* a bounded domain and applies the endpoint; the session does not move in *)
(* them, and the manager does not move in Spec.                            *)
(*                                                                         *)
(* SpecFair is Spec under fair scheduling of its threads.  SpecFleet puts  *)
(* several sessions side by side on one host and follows their binds.      *)
(***************************************************************************)
EXTENDS Integers, Sequences, FiniteSets, TLC

(* ---------------------------- bounds ----------------------------------- *)
MaxProducers == 2      \* producer thread objects that exist at one time
MaxListeners == 1      \* listener thread objects that exist at one time
MaxTrailing  == 1      \* bytes that may follow the 11 command bytes
MaxSensors   == 2      \* sensors the manager knows of
MaxHistory   == 3      \* points in a sensor's distance history
MaxSessions  == 2      \* sessions the manager holds side by side

(* ------------------------ program constants ---------------------------- *)
FIXED_CMD_PORT == 65000
CMD_PREFIX_LEN == 11
CMD_DATA_START == <<170, 1, 20, 0, 0, 0, 0, 181, 237, 1, 1>>
CMD_DATA_STOP  == <<170, 1, 20, 0, 0, 0, 0, 181, 237, 1, 0>>

(* ------------------------- input domains ------------------------------- *)
IPs       == {"127.0.0.1"}
DataPorts == {56001}
CmdPorts  == {56002}
AltBytes  == {0, 1, 2}
TrailSeqs == UNION {[1..n -> {0, 1}] : n \in 0..MaxTrailing}
Truncated == {SubSeq(c, 1, n) : c \in {CMD_DATA_START, CMD_DATA_STOP}, n \in 0..(CMD_PREFIX_LEN - 1)}
Mutated   == {[c EXCEPT ![i] = b] : c \in {CMD_DATA_START, CMD_DATA_STOP},
                                     i \in 1..CMD_PREFIX_LEN, b \in AltBytes}
Datagrams == Truncated \cup {c \o t : c \in Mutated, t \in TrailSeqs}

Caller    == 0
Listeners == 1..MaxListeners
Executors == {Caller} \cup Listeners
Producers == 1..MaxProducers
NoThread  == 0
NoPre     == [set |-> FALSE]
NoManager  == [berthing_mode_active |-> FALSE]
Sessions   == 1..MaxSessions
\* FakeLidarSimulator.__init__, lines 15-30, for a session of the fleet
NewSession ==
  [isConnected |-> FALSE, isData |-> FALSE, running |-> FALSE,
   command_running |-> FALSE, computerIP |-> "", dataPort |-> -1,
   cmdPort |-> -1, dataSocket |-> "None", cmdSocket |-> "None",
   listening |-> FALSE, pc |-> "idle", ret |-> "none"]
NoResponse == [kind |-> "none"]

VARIABLES
  isConnected, isData, running, command_running,   \* the session's flags
  computerIP, sensorIP, dataPort, cmdPort,         \* stored addresses
  dataSocket, cmdSocket,       \* "None", "open", "bound" or "closed"
  data_thread, command_thread, \* the thread objects the session refers to
  prod,          \* producer thread -> "dead","created","loop","loop2","send"
  pc,            \* executor -> position in the code
  jt,            \* executor -> the thread it is joining
  pre,           \* the session as it was when the running connect() began
  ret,           \* how the caller's last call ended, "none" while it runs
  stopReturned,  \* a dataStop has returned and no dataStart was invoked since
  cleanStops,    \* executors inside a dataStop that no dataStart has overlapped
  rxData, rxKind, \* a datagram and the command kind it was matched to
  sawUnknown,    \* listeners that received an unrecognised datagram since their start
  lidar_manager, \* what the berthing endpoints read from the sensor manager
  response,      \* what the berthing endpoint invoked last answered
  fleet          \* the sessions the manager holds side by side (SpecFleet)

flags    == <<isConnected, isData, running, command_running>>
addrs    == <<computerIP, sensorIP, dataPort, cmdPort>>
socks    == <<dataSocket, cmdSocket>>
threads  == <<data_thread, command_thread, prod>>
session  == <<flags, addrs, socks, threads>>
codec    == <<rxData, rxKind>>
stops    == <<stopReturned, cleanStops>>
views    == <<lidar_manager, response, fleet>>
vars     == <<session, pc, jt, pre, ret, stops, codec, sawUnknown, views>>

(* --------------------------- the codec --------------------------------- *)
\* a matcher that compares one byte too few
MatchCommand_shortPrefix(data) ==
  IF Len(data) >= CMD_PREFIX_LEN - 1
     /\ SubSeq(data, 1, CMD_PREFIX_LEN - 1) = SubSeq(CMD_DATA_START, 1, CMD_PREFIX_LEN - 1)
    THEN "Start"
  ELSE IF Len(data) >= CMD_PREFIX_LEN - 1
     /\ SubSeq(data, 1, CMD_PREFIX_LEN - 1) = SubSeq(CMD_DATA_STOP, 1, CMD_PREFIX_LEN - 1)
    THEN "Stop"
  ELSE "Unknown"

\* lines 206 and 212: the dispatch of _command_listener on the first 11 bytes
MatchCommand(data) ==
  IF Len(data) >= CMD_PREFIX_LEN
     /\ SubSeq(data, 1, CMD_PREFIX_LEN) = SubSeq(CMD_DATA_START, 1, CMD_PREFIX_LEN)
    THEN "Start"
  ELSE IF Len(data) >= CMD_PREFIX_LEN
     /\ SubSeq(data, 1, CMD_PREFIX_LEN) = SubSeq(CMD_DATA_STOP, 1, CMD_PREFIX_LEN)
    THEN "Stop"
  ELSE "Unknown"

\* the kinds the datagrams that can arrive are matched to
ReceivableKinds == {MatchCommand(data) : data \in Datagrams}

(* --------------------------- helpers ----------------------------------- *)
ProdAlive(p) == prod[p] \in {"loop", "loop2", "send"}
LisAlive(l)  == pc[l] # "dead"
AliveProducers == {p \in Producers : ProdAlive(p)}
AliveListeners == {l \in Listeners : LisAlive(l)}

StartPcs == {"s_check", "s_setData", "s_setRun", "s_create", "s_start"}
StopPcs  == {"k_setData", "k_setRun", "k_join", "k_wait"}

\* where a finished call continues, and where an exception takes the thread
ReturnTo(e) == IF e = Caller THEN "idle" ELSE "l_loop"
RaiseTo(e)  == IF e = Caller THEN "idle" ELSE "dead"

Joined == {jt[e] : e \in {x \in Executors : pc[x] \in {"k_wait", "d_waitData"}}}
FreeProducers == {p \in Producers : prod[p] = "dead" /\ p \notin Joined}
FreeListeners == {l \in Listeners : pc[l] = "dead"}
Lowest(S) == CHOOSE x \in S : \A y \in S : x <= y

\* Thread.join(timeout=1.0) on a producer gives up only while that producer
\* keeps looping; on a listener only while the listener keeps looping or is
\* itself waiting for a producer that keeps looping.
ProducerKeepsRunning(p) == ProdAlive(p) /\ running /\ isData
ListenerKeepsRunning(l) ==
  /\ LisAlive(l)
  /\ \/ command_running
     \/ pc[l] = "k_wait" /\ ProducerKeepsRunning(jt[l])

\* FakeLidarSimulator.__init__
InitSession ==
  /\ isConnected = FALSE /\ isData = FALSE
  /\ running = FALSE /\ command_running = FALSE
  /\ computerIP = "" /\ sensorIP = "" /\ dataPort = -1 /\ cmdPort = -1
  /\ dataSocket = "None" /\ cmdSocket = "None"
  /\ data_thread = NoThread /\ command_thread = NoThread
  /\ prod = [p \in Producers |-> "dead"]
  /\ pc = [e \in Executors |-> IF e = Caller THEN "idle" ELSE "dead"]
  /\ jt = [e \in Executors |-> NoThread]
  /\ pre = NoPre
  /\ ret = "none"
  /\ stopReturned = FALSE /\ cleanStops = {}
  /\ rxData = <<>> /\ rxKind = "Unknown"
  /\ sawUnknown = {}
  /\ fleet = [s \in Sessions |-> NewSession]

Init ==
  /\ InitSession
  /\ lidar_manager = NoManager /\ response = NoResponse

(* ----------------- bookkeeping of stops and starts ---------------------- *)
\* executor e enters a method: a dataStart ends the "stopped" period and
\* overlaps every dataStop under way; a dataStop that begins while no
\* dataStart is under way is clean until a dataStart is invoked
Entered(e, entry) ==
  /\ stopReturned' = (stopReturned /\ entry # "s_check")
  /\ cleanStops' = IF entry = "s_check" THEN {}
                   ELSE IF entry = "k_setData"
                           /\ \A x \in Executors : pc[x] \notin StartPcs
                     THEN cleanStops \cup {e}
                   ELSE cleanStops

\* executor e leaves dataStop, by return or by exception
StopReturned(e) ==
  /\ stopReturned' = (stopReturned \/ e \in cleanStops)
  /\ cleanStops' = cleanStops \ {e}
StopRaised(e) ==
  /\ stopReturned' = stopReturned
  /\ cleanStops' = cleanStops \ {e}

(* ------------------- the caller invokes a method ----------------------- *)
Call(entry) ==
  /\ pc[Caller] = "idle"
  /\ pc' = [pc EXCEPT ![Caller] = entry]
  /\ ret' = IF entry = "d_setRun" /\ ~isConnected
              THEN "none_disconnected"
            ELSE IF entry = "c_store" /\ ret = "disconnect_ok"
              THEN "none_afterDisconnect"
            ELSE "none"
  /\ Entered(Caller, entry)
  /\ UNCHANGED <<session, jt, pre, codec, sawUnknown, views>>

CallConnect    == Call("c_store")
CallDisconnect == Call("d_setRun")
CallDataStart  == Call("s_check")
CallDataStop   == Call("k_setData")

(* ------------------------------ connect -------------------------------- *)
\* lines 34-41: store the addresses, create two fresh sockets.  The sockets
\* the session referred to before are dropped and release their ports.
connect_store ==
  /\ pc[Caller] = "c_store"
  /\ \E ip \in IPs, sip \in IPs, dp \in DataPorts, cp \in CmdPorts :
       /\ computerIP' = ip /\ sensorIP' = sip
       /\ dataPort' = dp /\ cmdPort' = cp
  /\ dataSocket' = "open" /\ cmdSocket' = "open"
  /\ pre' = [set |-> TRUE, isConnected |-> isConnected,
             addrs |-> addrs, socks |-> socks,
             listeners |-> AliveListeners]
  /\ pc' = [pc EXCEPT ![Caller] = "c_bindData"]
  /\ UNCHANGED <<flags, threads, jt, ret, stops, codec, sawUnknown, views>>

\* line 45: bind the data socket; the port may be held by another program.
\* A failed bind raises, line 58 catches, connect returns 0.
connect_bindData ==
  /\ pc[Caller] = "c_bindData"
  /\ \E heldElsewhere \in BOOLEAN :
       IF ~heldElsewhere
         THEN /\ dataSocket' = "bound"
              /\ pc' = [pc EXCEPT ![Caller] = "c_bindCmd"]
              /\ ret' = ret
         ELSE /\ dataSocket' = dataSocket
              /\ pc' = [pc EXCEPT ![Caller] = "idle"]
              /\ ret' = "connect_fail"
  /\ pre' = IF pc'[Caller] = "idle" THEN NoPre ELSE pre
  /\ UNCHANGED <<flags, addrs, cmdSocket, threads, jt, stops, codec, sawUnknown, views>>

\* line 47: bind the command socket, always to port 65000
connect_bindCmd ==
  /\ pc[Caller] = "c_bindCmd"
  /\ \E heldElsewhere \in BOOLEAN :
       IF ~heldElsewhere /\ ~(dataSocket = "bound" /\ dataPort = FIXED_CMD_PORT)
         THEN /\ cmdSocket' = "bound"
              /\ pc' = [pc EXCEPT ![Caller] = "c_setConn"]
              /\ ret' = ret
         ELSE /\ cmdSocket' = cmdSocket
              /\ pc' = [pc EXCEPT ![Caller] = "idle"]
              /\ ret' = "connect_fail"
  /\ pre' = IF pc'[Caller] = "idle" THEN NoPre ELSE pre
  /\ UNCHANGED <<flags, addrs, dataSocket, threads, jt, stops, codec, sawUnknown, views>>

\* line 48
connect_setConnected ==
  /\ pc[Caller] = "c_setConn"
  /\ isConnected' = TRUE
  /\ pc' = [pc EXCEPT ![Caller] = "c_setCmdRun"]
  /\ UNCHANGED <<isData, running, command_running, addrs, socks, threads,
                 jt, pre, ret, stops, codec, sawUnknown, views>>

\* line 51
connect_setCommandRunning ==
  /\ pc[Caller] = "c_setCmdRun"
  /\ command_running' = TRUE
  /\ pc' = [pc EXCEPT ![Caller] = "c_spawn"]
  /\ UNCHANGED <<isConnected, isData, running, addrs, socks, threads,
                 jt, pre, ret, stops, codec, sawUnknown, views>>

\* lines 52-57: create and start the listener thread, return 1
connect_spawn ==
  /\ pc[Caller] = "c_spawn"
  /\ FreeListeners # {}
  /\ LET l == Lowest(FreeListeners) IN
       /\ command_thread' = l
       /\ pc' = [pc EXCEPT ![Caller] = "idle", ![l] = "l_loop"]
  /\ ret' = "connect_ok"
  /\ pre' = NoPre
  /\ sawUnknown' = sawUnknown \ FreeListeners
  /\ UNCHANGED <<flags, addrs, socks, data_thread, prod, jt, stops, codec, views>>

(* ----------------------------- disconnect ------------------------------ *)
\* line 65
disconnect_setRunning ==
  /\ pc[Caller] = "d_setRun"
  /\ running' = FALSE
  /\ pc' = [pc EXCEPT ![Caller] = "d_setCmdRun"]
  /\ UNCHANGED <<isConnected, isData, command_running, addrs, socks, threads,
                 jt, pre, ret, stops, codec, sawUnknown, views>>

\* line 66
disconnect_setCommandRunning ==
  /\ pc[Caller] = "d_setCmdRun"
  /\ command_running' = FALSE
  /\ pc' = [pc EXCEPT ![Caller] = "d_joinData"]
  /\ UNCHANGED <<isConnected, isData, running, addrs, socks, threads,
                 jt, pre, ret, stops, codec, sawUnknown, views>>

\* lines 67-68: join the producer the session refers to, if any.  Joining a
\* thread object that was created but not started raises RuntimeError.
disconnect_joinData ==
  /\ pc[Caller] = "d_joinData"
  /\ IF data_thread = NoThread \/ prod[data_thread] = "dead"
       THEN pc' = [pc EXCEPT ![Caller] = "d_joinCmd"] /\ jt' = jt
     ELSE IF prod[data_thread] = "created"
       THEN pc' = [pc EXCEPT ![Caller] = RaiseTo(Caller)] /\ jt' = jt
     ELSE /\ pc' = [pc EXCEPT ![Caller] = "d_waitData"]
          /\ jt' = [jt EXCEPT ![Caller] = data_thread]
  /\ ret' = IF data_thread # NoThread /\ prod[data_thread] = "created"
              THEN "raised" ELSE ret
  /\ UNCHANGED <<session, pre, stops, codec, sawUnknown, views>>

disconnect_waitData ==
  /\ pc[Caller] = "d_waitData"
  /\ prod[jt[Caller]] = "dead" \/ ProducerKeepsRunning(jt[Caller])
  /\ pc' = [pc EXCEPT ![Caller] = "d_joinCmd"]
  /\ jt' = [jt EXCEPT ![Caller] = NoThread]
  /\ UNCHANGED <<session, pre, ret, stops, codec, sawUnknown, views>>

\* lines 69-70: join the listener the session refers to, if any
disconnect_joinCmd ==
  /\ pc[Caller] = "d_joinCmd"
  /\ IF command_thread = NoThread \/ ~LisAlive(command_thread)
       THEN pc' = [pc EXCEPT ![Caller] = "d_closeData"] /\ jt' = jt
       ELSE /\ pc' = [pc EXCEPT ![Caller] = "d_waitCmd"]
            /\ jt' = [jt EXCEPT ![Caller] = command_thread]
  /\ UNCHANGED <<session, pre, ret, stops, codec, sawUnknown, views>>

disconnect_waitCmd ==
  /\ pc[Caller] = "d_waitCmd"
  /\ ~LisAlive(jt[Caller]) \/ ListenerKeepsRunning(jt[Caller])
  /\ pc' = [pc EXCEPT ![Caller] = "d_closeData"]
  /\ jt' = [jt EXCEPT ![Caller] = NoThread]
  /\ UNCHANGED <<session, pre, ret, stops, codec, sawUnknown, views>>

\* lines 71-72
disconnect_closeData ==
  /\ pc[Caller] = "d_closeData"
  /\ dataSocket' = IF dataSocket = "None" THEN "None" ELSE "closed"
  /\ pc' = [pc EXCEPT ![Caller] = "d_closeCmd"]
  /\ UNCHANGED <<flags, addrs, cmdSocket, threads, jt, pre, ret, stops, codec, sawUnknown, views>>

\* lines 73-74
disconnect_closeCmd ==
  /\ pc[Caller] = "d_closeCmd"
  /\ cmdSocket' = IF cmdSocket = "None" THEN "None" ELSE "closed"
  /\ pc' = [pc EXCEPT ![Caller] = "d_setConn"]
  /\ UNCHANGED <<flags, addrs, dataSocket, threads, jt, pre, ret, stops, codec, sawUnknown, views>>

\* line 75
disconnect_setConnected ==
  /\ pc[Caller] = "d_setConn"
  /\ isConnected' = FALSE
  /\ pc' = [pc EXCEPT ![Caller] = "d_setData"]
  /\ UNCHANGED <<isData, running, command_running, addrs, socks, threads,
                 jt, pre, ret, stops, codec, sawUnknown, views>>

\* line 76, and the return
disconnect_setData ==
  /\ pc[Caller] = "d_setData"
  /\ isData' = FALSE
  /\ pc' = [pc EXCEPT ![Caller] = "idle"]
  /\ ret' = "disconnect_ok"
  /\ UNCHANGED <<isConnected, running, command_running, addrs, socks, threads,
                 jt, pre, stops, codec, sawUnknown, views>>

(* --------------------------- dataStart_RT_B ---------------------------- *)
\* a dataStart_RT_B without the guard of lines 98-99
dataStart_check_unguarded(e) ==
  /\ pc[e] = "s_check"
  /\ pc' = [pc EXCEPT ![e] = "s_setData"]
  /\ UNCHANGED <<session, jt, pre, ret, stops, codec, sawUnknown, views>>

\* lines 98-99
dataStart_check(e) ==
  /\ pc[e] = "s_check"
  /\ pc' = [pc EXCEPT ![e] = IF isConnected THEN "s_setData" ELSE ReturnTo(e)]
  /\ ret' = IF e = Caller /\ ~isConnected THEN "dataStart_ignored" ELSE ret
  /\ UNCHANGED <<session, jt, pre, stops, codec, sawUnknown, views>>

\* line 101
dataStart_setData(e) ==
  /\ pc[e] = "s_setData"
  /\ isData' = TRUE
  /\ pc' = [pc EXCEPT ![e] = "s_setRun"]
  /\ UNCHANGED <<isConnected, running, command_running, addrs, socks, threads,
                 jt, pre, ret, stops, codec, sawUnknown, views>>

\* line 102
dataStart_setRunning(e) ==
  /\ pc[e] = "s_setRun"
  /\ running' = TRUE
  /\ pc' = [pc EXCEPT ![e] = "s_create"]
  /\ UNCHANGED <<isConnected, isData, command_running, addrs, socks, threads,
                 jt, pre, ret, stops, codec, sawUnknown, views>>

\* line 103: a new thread object replaces the one the session referred to.
\* A replaced object that was never started is garbage from here on.
dataStart_create(e) ==
  /\ pc[e] = "s_create"
  /\ FreeProducers # {}
  /\ LET p == Lowest(FreeProducers) IN
       /\ data_thread' = p
       /\ prod' = [q \in Producers |->
                     IF q = p THEN "created"
                     ELSE IF prod[q] = "created" THEN "dead" ELSE prod[q]]
  /\ pc' = [pc EXCEPT ![e] = "s_start"]
  /\ UNCHANGED <<flags, addrs, socks, command_thread, jt, pre, ret,
                 stops, codec, sawUnknown, views>>

\* line 104: start whatever thread object the session refers to now;
\* starting a thread a second time raises RuntimeError
dataStart_start(e) ==
  /\ pc[e] = "s_start"
  /\ IF prod[data_thread] = "created"
       THEN /\ prod' = [prod EXCEPT ![data_thread] = "loop"]
            /\ pc' = [pc EXCEPT ![e] = ReturnTo(e)]
            /\ ret' = IF e = Caller THEN "dataStart_ok" ELSE ret
       ELSE /\ prod' = prod
            /\ pc' = [pc EXCEPT ![e] = RaiseTo(e)]
            /\ ret' = IF e = Caller THEN "raised" ELSE ret
  /\ UNCHANGED <<flags, addrs, socks, data_thread, command_thread, jt, pre,
                 stops, codec, sawUnknown, views>>

(* ------------------------------ dataStop ------------------------------- *)
\* line 115
dataStop_setData(e) ==
  /\ pc[e] = "k_setData"
  /\ isData' = FALSE
  /\ pc' = [pc EXCEPT ![e] = "k_setRun"]
  /\ UNCHANGED <<isConnected, running, command_running, addrs, socks, threads,
                 jt, pre, ret, stops, codec, sawUnknown, views>>

\* a dataStop that clears the listener's flag along with the producer's
dataStop_setRunning_stopsListener(e) ==
  /\ pc[e] = "k_setRun"
  /\ running' = FALSE /\ command_running' = FALSE
  /\ pc' = [pc EXCEPT ![e] = "k_join"]
  /\ UNCHANGED <<isConnected, isData, addrs, socks, threads,
                 jt, pre, ret, stops, codec, sawUnknown, views>>

\* line 116
dataStop_setRunning(e) ==
  /\ pc[e] = "k_setRun"
  /\ running' = FALSE
  /\ pc' = [pc EXCEPT ![e] = "k_join"]
  /\ UNCHANGED <<isConnected, isData, command_running, addrs, socks, threads,
                 jt, pre, ret, stops, codec, sawUnknown, views>>

\* a dataStop that joins without the guard of line 117: None has no join
dataStop_join_unguarded(e) ==
  /\ pc[e] = "k_join"
  /\ IF data_thread # NoThread /\ prod[data_thread] = "dead"
       THEN /\ pc' = [pc EXCEPT ![e] = ReturnTo(e)]
            /\ jt' = jt
            /\ ret' = IF e = Caller THEN "dataStop_ok" ELSE ret
            /\ StopReturned(e)
     ELSE IF data_thread = NoThread \/ prod[data_thread] = "created"
       THEN /\ pc' = [pc EXCEPT ![e] = RaiseTo(e)]
            /\ jt' = jt
            /\ ret' = IF e = Caller THEN "raised" ELSE ret
            /\ StopRaised(e)
     ELSE /\ pc' = [pc EXCEPT ![e] = "k_wait"]
          /\ jt' = [jt EXCEPT ![e] = data_thread]
          /\ ret' = ret
          /\ UNCHANGED stops
  /\ UNCHANGED <<session, pre, codec, sawUnknown, views>>

\* lines 117-118: join the producer the session refers to, if any
dataStop_join(e) ==
  /\ pc[e] = "k_join"
  /\ IF data_thread = NoThread \/ prod[data_thread] = "dead"
       THEN /\ pc' = [pc EXCEPT ![e] = ReturnTo(e)]
            /\ jt' = jt
            /\ ret' = IF e = Caller THEN "dataStop_ok" ELSE ret
            /\ StopReturned(e)
     ELSE IF prod[data_thread] = "created"
       THEN /\ pc' = [pc EXCEPT ![e] = RaiseTo(e)]
            /\ jt' = jt
            /\ ret' = IF e = Caller THEN "raised" ELSE ret
            /\ StopRaised(e)
     ELSE /\ pc' = [pc EXCEPT ![e] = "k_wait"]
          /\ jt' = [jt EXCEPT ![e] = data_thread]
          /\ ret' = ret
          /\ UNCHANGED stops
  /\ UNCHANGED <<session, pre, codec, sawUnknown, views>>

dataStop_wait(e) ==
  /\ pc[e] = "k_wait"
  /\ prod[jt[e]] = "dead" \/ ProducerKeepsRunning(jt[e])
  /\ pc' = [pc EXCEPT ![e] = ReturnTo(e)]
  /\ jt' = [jt EXCEPT ![e] = NoThread]
  /\ ret' = IF e = Caller THEN "dataStop_ok" ELSE ret
  /\ StopReturned(e)
  /\ UNCHANGED <<session, pre, codec, sawUnknown, views>>

(* ------------------------- _generate_fake_data ------------------------- *)
\* line 127, first operand of the loop condition
producer_loop(p) ==
  /\ prod[p] = "loop"
  /\ prod' = [prod EXCEPT ![p] = IF running THEN "loop2" ELSE "dead"]
  /\ UNCHANGED <<flags, addrs, socks, data_thread, command_thread, pc, jt,
                 pre, ret, stops, codec, sawUnknown, views>>

\* line 127, second operand
producer_loop2(p) ==
  /\ prod[p] = "loop2"
  /\ prod' = [prod EXCEPT ![p] = IF isData THEN "send" ELSE "dead"]
  /\ UNCHANGED <<flags, addrs, socks, data_thread, command_thread, pc, jt,
                 pre, ret, stops, codec, sawUnknown, views>>

\* a frame leaves on the data socket
FrameSent(p) == prod[p] = "send" /\ prod'[p] = "loop"

\* a producer that goes on looping after a failed send
producer_send_retry(p) ==
  /\ prod[p] = "send"
  /\ prod' = [prod EXCEPT ![p] = "loop"]
  /\ UNCHANGED <<flags, addrs, socks, data_thread, command_thread, pc, jt,
                 pre, ret, stops, codec, sawUnknown, views>>

\* lines 130-140: build a frame and send it, sleep, loop; any exception
\* (socket closed or absent, transport error) ends the loop
producer_send(p) ==
  /\ prod[p] = "send"
  /\ \E transportOk \in BOOLEAN :
       prod' = [prod EXCEPT ![p] =
                  IF transportOk /\ dataSocket \in {"open", "bound"}
                    THEN "loop" ELSE "dead"]
  /\ UNCHANGED <<flags, addrs, socks, data_thread, command_thread, pc, jt,
                 pre, ret, stops, codec, sawUnknown, views>>

(* -------------------------- _command_listener -------------------------- *)
\* line 199
listener_loop(l) ==
  /\ pc[l] = "l_loop"
  /\ pc' = [pc EXCEPT ![l] = IF command_running THEN "l_recv" ELSE "dead"]
  /\ UNCHANGED <<session, jt, pre, ret, stops, codec, sawUnknown, views>>

\* lines 202-203 and 217-223: the receive times out (continue), or fails
\* on a closed socket (break)
listener_recvNothing(l) ==
  /\ pc[l] = "l_recv"
  /\ pc' = [pc EXCEPT ![l] = IF cmdSocket \in {"open", "bound"}
                               THEN "l_loop" ELSE "dead"]
  /\ UNCHANGED <<session, jt, pre, ret, stops, codec, sawUnknown, views>>

\* a listener for which an unrecognised datagram is an error that ends it
listener_recvDatagram_unknownFatal(l) ==
  /\ pc[l] = "l_recv"
  /\ cmdSocket = "bound"
  /\ \E kind \in ReceivableKinds :
       LET entry == CASE kind = "Start" -> "s_check"
                      [] kind = "Stop"  -> "k_setData"
                      [] OTHER          -> "dead"
       IN  /\ pc' = [pc EXCEPT ![l] = entry] /\ Entered(l, entry)
           /\ sawUnknown' = IF kind = "Unknown" THEN sawUnknown \cup {l}
                                                ELSE sawUnknown
  /\ UNCHANGED <<session, jt, pre, ret, codec, views>>

\* lines 203-215: a datagram arrives on the bound command socket and is
\* dispatched on its first 11 bytes; one that matches neither command falls
\* through both branches to the top of the loop
listener_recvDatagram(l) ==
  /\ pc[l] = "l_recv"
  /\ cmdSocket = "bound"
  /\ \E kind \in ReceivableKinds :
       LET entry == CASE kind = "Start" -> "s_check"
                      [] kind = "Stop"  -> "k_setData"
                      [] OTHER          -> "l_loop"
       IN  /\ pc' = [pc EXCEPT ![l] = entry] /\ Entered(l, entry)
           /\ sawUnknown' = IF kind = "Unknown" THEN sawUnknown \cup {l}
                                                ELSE sawUnknown
  /\ UNCHANGED <<session, jt, pre, ret, codec, views>>

(* ------------------------- the specification --------------------------- *)
CallerStep ==
  \/ CallConnect \/ CallDisconnect \/ CallDataStart \/ CallDataStop
  \/ connect_store \/ connect_bindData \/ connect_bindCmd
  \/ connect_setConnected \/ connect_setCommandRunning \/ connect_spawn
  \/ disconnect_setRunning \/ disconnect_setCommandRunning
  \/ disconnect_joinData \/ disconnect_waitData
  \/ disconnect_joinCmd \/ disconnect_waitCmd
  \/ disconnect_closeData \/ disconnect_closeCmd
  \/ disconnect_setConnected \/ disconnect_setData

StreamStep(e) ==
  \/ dataStart_check(e) \/ dataStart_setData(e) \/ dataStart_setRunning(e)
  \/ dataStart_create(e) \/ dataStart_start(e)
  \/ dataStop_setData(e) \/ dataStop_setRunning(e)
  \/ dataStop_join(e) \/ dataStop_wait(e)

ListenerStep(l) ==
  \/ listener_loop(l) \/ listener_recvNothing(l) \/ listener_recvDatagram(l)

ProducerStep(p) ==
  \/ producer_loop(p) \/ producer_loop2(p) \/ producer_send(p)

Next ==
  \/ CallerStep
  \/ \E e \in Executors : StreamStep(e)
  \/ \E l \in Listeners : ListenerStep(l)
  \/ \E p \in Producers : ProducerStep(p)

Spec == Init /\ [][Next]_vars

(* --------------- the session under fair scheduling (SpecFair) ---------- *)
\* the caller's thread inside a method: every statement but the invocations
CallerRuns ==
  \/ connect_store \/ connect_bindData \/ connect_bindCmd
  \/ connect_setConnected \/ connect_setCommandRunning \/ connect_spawn
  \/ disconnect_setRunning \/ disconnect_setCommandRunning
  \/ disconnect_joinData \/ disconnect_waitData
  \/ disconnect_joinCmd \/ disconnect_waitCmd
  \/ disconnect_closeData \/ disconnect_closeCmd
  \/ disconnect_setConnected \/ disconnect_setData
  \/ StreamStep(Caller)

\* every thread that can run is given the processor again and again: the
\* caller inside a method, each listener thread (in its loop and in the
\* method a command made it call), each producer thread.  Whether the
\* caller invokes a method, and whether datagrams arrive, is left open.
Fairness ==
  /\ WF_vars(CallerRuns)
  /\ \A l \in Listeners : WF_vars(ListenerStep(l) \/ StreamStep(l))
  /\ \A p \in Producers : WF_vars(ProducerStep(p))

SpecFair == Init /\ [][Next]_vars /\ Fairness

(* ------------- the command matcher on its own (SpecCommands) ----------- *)
\* lines 203-215: a datagram is received and matched; the session is left
\* out of this specification
listener_match ==
  /\ \E data \in Datagrams :
       /\ rxData' = data
       /\ rxKind' = MatchCommand(data)
  /\ UNCHANGED <<session, pc, jt, pre, ret, stops, sawUnknown, views>>

SpecCommands == Init /\ [][listener_match]_vars

(* ================= the berthing endpoints (berthing_data.py) =========== *)
(* Numbers.  Distances are integers in units of 0.1 mm and speeds in units *)
(* of 0.01 mm/s, so that round(x, 3) on metres and round(x * 1000, 1) on   *)
(* metres per second both round to the nearest multiple of 10 units.  The  *)
(* input domains hold no value that lies halfway between two multiples.    *)
Inf  == 1000000000      \* float('inf'): above every distance
None == -1000000000     \* Python's None in a numeric field

Abs(x) == IF x < 0 THEN 0 - x ELSE x
\* round() of a value to the nearest multiple of 10 units
Round(x) == ((x + 5) \div 10) * 10

\* the three thresholds of lines 194, 196 and 201: 5.0 m, 20.0 m and 1.0 m
FINAL_APPROACH_BELOW == 50000
APPROACHING_BELOW    == 200000
BERTHED_BELOW        == 10000

SensorIds == 1..MaxSensors
Absent    == [present |-> FALSE]

(* ---------------- get_berthing_summary, lines 149-213 ------------------ *)
\* what berthing_mode_center_stats can hold for a sensor
SummaryDistances == {-10000, 0, 4, 9999, 10000, 45000, 50000, 150000, 200000}
SummarySpeeds    == {-60000, 10000}
SummaryStats ==
  [present : {TRUE}, stable_distance : SummaryDistances,
   speed_mps : SummarySpeeds, is_vessel_moving : BOOLEAN,
   movement_phase : {"unknown"}]

InitSummary ==
  /\ InitSession
  /\ response = NoResponse
  /\ lidar_manager \in
       [berthing_mode_active : BOOLEAN,
        berthing_mode_sensors : SUBSET SensorIds,
        berthing_mode_center_stats : [SensorIds -> SummaryStats \cup {Absent}]]

\* lines 163-165: the accumulators before the loop
SummaryStart ==
  [any_moving |-> FALSE, min_distance |-> Inf, max_speed |-> 0, sensors |-> {}]

\* a loop body that lets every distance, valid or not, lower the minimum
SummaryStep_anyDistance(acc, sensor_id, stats) ==
  LET distance  == stats.stable_distance
      speed     == Abs(stats.speed_mps)
      is_moving == stats.is_vessel_moving
  IN  [any_moving   |-> IF is_moving THEN TRUE ELSE acc.any_moving,
       min_distance |-> IF distance < acc.min_distance
                          THEN distance ELSE acc.min_distance,
       max_speed    |-> IF speed > acc.max_speed THEN speed ELSE acc.max_speed,
       sensors      |-> acc.sensors \cup {sensor_id}]

\* lines 169-188: the loop body for a sensor that has stats; acc holds
\* any_moving, min_distance, max_speed and the ids entered in
\* summary["sensors"]
SummaryStep(acc, sensor_id, stats) ==
  LET distance  == stats.stable_distance
      speed     == Abs(stats.speed_mps)
      is_moving == stats.is_vessel_moving
  IN  [any_moving   |-> IF is_moving THEN TRUE ELSE acc.any_moving,
       min_distance |-> IF distance < acc.min_distance /\ distance > 0
                          THEN distance ELSE acc.min_distance,
       max_speed    |-> IF speed > acc.max_speed THEN speed ELSE acc.max_speed,
       sensors      |-> acc.sensors \cup {sensor_id}]

\* lines 167-168: the loop over berthing_mode_sensors, skipping the sensors
\* that have no entry in berthing_mode_center_stats
RECURSIVE SummaryLoop(_, _, _)
SummaryLoop(mgr, todo, acc) ==
  IF todo = {} THEN acc
  ELSE
    LET sensor_id == Lowest(todo)
        stats     == mgr.berthing_mode_center_stats[sensor_id]
    IN  SummaryLoop(mgr, todo \ {sensor_id},
                    IF stats.present THEN SummaryStep(acc, sensor_id, stats)
                                     ELSE acc)

\* lines 176-181: the entry of one sensor in summary["sensors"]
SummaryEntry(stats) ==
  [distance   |-> Round(stats.stable_distance),
   speed_mm_s |-> Round(Abs(stats.speed_mps)),
   is_moving  |-> stats.is_vessel_moving,
   phase      |-> stats.movement_phase]

\* a status rule that compares the minimum without asking first whether the
\* berth is active
OverallStatus_ignoresMode(active, any_moving, min_distance) ==
  IF any_moving
    THEN IF min_distance < FINAL_APPROACH_BELOW THEN "final_approach"
         ELSE IF min_distance < APPROACHING_BELOW THEN "approaching"
         ELSE "monitoring"
  ELSE IF min_distance < BERTHED_BELOW THEN "berthed"
  ELSE "standby"

\* lines 190-204
OverallStatus(active, any_moving, min_distance) ==
  IF ~active THEN "inactive"
  ELSE IF any_moving
    THEN IF min_distance < FINAL_APPROACH_BELOW THEN "final_approach"
         ELSE IF min_distance < APPROACHING_BELOW THEN "approaching"
         ELSE "monitoring"
  ELSE IF min_distance < BERTHED_BELOW THEN "berthed"
  ELSE "standby"

\* a summary whose largest speed is taken over the sensors with a valid
\* distance only, as if line 187 stood inside the branch of line 185
Summary_speedOverValidDistances(mgr) ==
  LET acc   == SummaryLoop(mgr, mgr.berthing_mode_sensors, SummaryStart)
      valid == {id \in mgr.berthing_mode_sensors :
                  /\ mgr.berthing_mode_center_stats[id].present
                  /\ mgr.berthing_mode_center_stats[id].stable_distance > 0}
      accV  == SummaryLoop(mgr, valid, SummaryStart)
  IN  [kind |-> "summary",
       berthing_mode_active |-> mgr.berthing_mode_active,
       sensors |-> [id \in acc.sensors |->
                      SummaryEntry(mgr.berthing_mode_center_stats[id])],
       overall_status |-> OverallStatus(mgr.berthing_mode_active,
                                        acc.any_moving, acc.min_distance),
       min_distance |-> IF acc.min_distance # Inf
                          THEN Round(acc.min_distance) ELSE None,
       max_speed_mm_s |-> Round(accV.max_speed)]

\* lines 157-209: the summary returned for a manager state
Summary(mgr) ==
  LET acc == SummaryLoop(mgr, mgr.berthing_mode_sensors, SummaryStart)
  IN  [kind |-> "summary",
       berthing_mode_active |-> mgr.berthing_mode_active,
       sensors |-> [id \in acc.sensors |->
                      SummaryEntry(mgr.berthing_mode_center_stats[id])],
       overall_status |-> OverallStatus(mgr.berthing_mode_active,
                                        acc.any_moving, acc.min_distance),
       min_distance |-> IF acc.min_distance # Inf
                          THEN Round(acc.min_distance) ELSE None,
       max_speed_mm_s |-> Round(acc.max_speed)]

get_berthing_summary ==
  /\ response' = Summary(lidar_manager)
  /\ UNCHANGED <<session, pc, jt, pre, ret, stops, codec, sawUnknown,
                 lidar_manager, fleet>>

SpecSummary == InitSummary /\ [][get_berthing_summary]_vars

(* ------- fetch_berthing_data_for_sensor, berthing_data_core.py 6-64 ----- *)
\* what sensor_sync_data can hold for a sensor: a timestamp and the centre
\* stats.  A stable_distance of None stands for stats that are not numbers,
\* on which round() raises TypeError.
SensorDistances == {None, 45000}
SensorSpeeds    == {-60000, 0, 10000}
SensorSpeedsMm  == {-60000, 0}
SensorStats ==
  [present : {TRUE}, timestamp : {17},
   stable_distance : SensorDistances, speed_mps : SensorSpeeds,
   speed_mm_s : SensorSpeedsMm, is_vessel_moving : BOOLEAN,
   movement_phase : {"unknown"}]
\* lines 18-32: the defaults of the .get() calls when nothing is stored
DefaultStats ==
  [present |-> TRUE, timestamp |-> 0, stable_distance |-> 0, speed_mps |-> 0,
   speed_mm_s |-> 0, is_vessel_moving |-> FALSE, movement_phase |-> "unknown"]

\* a direction taken from the sign of the speed alone
Direction_ignoresMoving(is_moving, speed) ==
  IF speed < 0 THEN "approaching"
  ELSE IF speed > 0 THEN "departing"
  ELSE "lateral"

\* lines 34-43
Direction(is_moving, speed) ==
  IF is_moving
    THEN IF speed < 0 THEN "approaching"
         ELSE IF speed > 0 THEN "departing"
         ELSE "lateral"
  ELSE "stationary"

\* a validation that does not look at the stream
FetchStatus_noStreamCheck(mgr, sensor_id) ==
  IF sensor_id \notin mgr.sensors THEN "not_found"
  ELSE "active"

\* lines 10-16: the validation of the sensor
FetchStatus(mgr, sensor_id) ==
  IF sensor_id \notin mgr.sensors THEN "not_found"
  ELSE IF sensor_id \notin mgr.stream_active THEN "stream_inactive"
  ELSE "active"

\* what the function does: it returns a dict, or an exception leaves it
Returned(body) == [raised |-> FALSE, body |-> body]
Raised_TypeError == [raised |-> TRUE, body |-> [status |-> "TypeError"]]

\* lines 6-64.  The figures of lines 26-29 and 32 (instant_speed,
\* sa_averaged_speed, trend_speed, speed_precision_mm_s, confidence) are
\* rounded copies of stored values, as speed is, and are left out of the
\* record; message stands for the text of lines 12 and 16.
Fetch(mgr, sensor_id) ==
  LET status == FetchStatus(mgr, sensor_id)
      stats  == IF mgr.sensor_sync_data[sensor_id].present
                  THEN mgr.sensor_sync_data[sensor_id] ELSE DefaultStats
  IN  IF status # "active"
        THEN Returned([sensor_id |-> sensor_id, status |-> status,
                       message |-> status])
      ELSE IF stats.stable_distance = None
        THEN Raised_TypeError
      ELSE Returned(
             [sensor_id       |-> sensor_id,
              timestamp       |-> stats.timestamp,
              distance        |-> Round(stats.stable_distance),
              distance_mm     |-> Round(stats.stable_distance),
              speed           |-> Round(stats.speed_mps),
              speed_mm_s      |-> Round(stats.speed_mm_s),
              is_moving       |-> stats.is_vessel_moving,
              direction       |-> Direction(stats.is_vessel_moving,
                                            stats.speed_mps),
              movement_phase  |-> stats.movement_phase,
              stable_distance |-> Round(stats.stable_distance),
              status          |-> "active"])

\* berthing_data.py lines 30-45: the endpoint turns the two refusals into
\* HTTP errors and every other exception into a 500
HttpGet(mgr, sensor_id) ==
  LET raw_data == Fetch(mgr, sensor_id)
  IN  IF raw_data.raised THEN [code |-> 500, body |-> raw_data.body]
      ELSE IF raw_data.body.status = "not_found"
        THEN [code |-> 404, body |-> raw_data.body]
      ELSE IF raw_data.body.status = "stream_inactive"
        THEN [code |-> 400, body |-> raw_data.body]
      ELSE [code |-> 200, body |-> raw_data.body]

\* the manager as the per-sensor view meets it: any registration and stream
\* state, and sync data stored for at most one sensor
InitSensor ==
  /\ InitSession
  /\ response = NoResponse
  /\ \E stored \in SensorIds, data \in SensorStats \cup {Absent} :
       lidar_manager \in
         [sensors : SUBSET SensorIds, stream_active : SUBSET SensorIds,
          sensor_sync_data :
            {[id \in SensorIds |-> IF id = stored THEN data ELSE Absent]}]

fetch_berthing_data_for_sensor ==
  /\ \E sensor_id \in SensorIds :
       response' = [kind |-> "fetch", sensor_id |-> sensor_id,
                    result |-> Fetch(lidar_manager, sensor_id)]
  /\ UNCHANGED <<session, pc, jt, pre, ret, stops, codec, sawUnknown,
                 lidar_manager, fleet>>

get_berthing_data ==
  /\ \E sensor_id \in SensorIds :
       response' = [kind |-> "http", sensor_id |-> sensor_id,
                    result |-> HttpGet(lidar_manager, sensor_id)]
  /\ UNCHANGED <<session, pc, jt, pre, ret, stops, codec, sawUnknown,
                 lidar_manager, fleet>>

NextSensor == fetch_berthing_data_for_sensor \/ get_berthing_data
SpecSensor == InitSensor /\ [][NextSensor]_vars

(* --- the all-sensors view: get_all_berthing_data_core (core, 66-93) ----- *)
(* --- and get_all_berthing_data (berthing_data.py, 48-78) ---------------- *)
\* stored stats that can be reported, and stored stats on which the fetch
\* fails
GoodStats ==
  [present |-> TRUE, timestamp |-> 17, stable_distance |-> 45000,
   speed_mps |-> -60000, speed_mm_s |-> -60000, is_vessel_moving |-> TRUE,
   movement_phase |-> "unknown"]
BadStats == [GoodStats EXCEPT !.stable_distance = None]
Clock == {1000, 1001}      \* what time.time() can return

InitAll ==
  /\ InitSession
  /\ response = NoResponse
  /\ lidar_manager \in
       [sensors : SUBSET SensorIds, stream_active : SUBSET SensorIds,
        berthing_mode_sensors : SUBSET SensorIds,
        berthing_mode_active : BOOLEAN, sync_coordinator_active : BOOLEAN,
        sensor_sync_data : [SensorIds -> {GoodStats, BadStats, Absent}]]

\* core lines 73-74, endpoint lines 58-59: the sensors the loop visits
Selected(mgr) == mgr.berthing_mode_sensors \cap mgr.stream_active

\* a loop body that hands on the raw exception of a failed fetch
AllEntryCore_passesFailure(mgr, sensor_id) ==
  LET sensor_data == Fetch(mgr, sensor_id)
  IN  IF sensor_data.raised
        THEN [sensor_id |-> sensor_id, status |-> sensor_data.body.status,
              message |-> sensor_data.body.status]
        ELSE sensor_data.body

\* core lines 75-85: the entry of one sensor, an error entry if the fetch
\* raises
AllEntryCore(mgr, sensor_id) ==
  LET sensor_data == Fetch(mgr, sensor_id)
  IN  IF sensor_data.raised
        THEN [sensor_id |-> sensor_id, status |-> "error",
              message |-> sensor_data.body.status]
        ELSE sensor_data.body

\* endpoint lines 60-67: the entry of one sensor; every exception of
\* get_berthing_data, its HTTP errors included, gives an error entry
AllEntryHttp(mgr, sensor_id) ==
  LET sensor_data == HttpGet(mgr, sensor_id)
  IN  IF sensor_data.code # 200
        THEN [sensor_id |-> sensor_id, status |-> "error"]
        ELSE sensor_data.body

\* core lines 71-93
AllCore(mgr, now) ==
  LET result == [id \in Selected(mgr) |-> AllEntryCore(mgr, id)]
  IN  [sensors |-> result, count |-> Cardinality(DOMAIN result),
       berthing_mode_active |-> mgr.berthing_mode_active,
       synchronized |-> mgr.sync_coordinator_active,
       server_timestamp_utc |-> now]

\* endpoint lines 55-74
AllHttp(mgr) ==
  LET result == [id \in Selected(mgr) |-> AllEntryHttp(mgr, id)]
  IN  [sensors |-> result, count |-> Cardinality(DOMAIN result),
       berthing_mode_active |-> mgr.berthing_mode_active,
       synchronized |-> mgr.sync_coordinator_active]

get_all_berthing_data_core ==
  /\ \E now \in Clock :
       response' = [kind |-> "all_core", result |-> AllCore(lidar_manager, now)]
  /\ UNCHANGED <<session, pc, jt, pre, ret, stops, codec, sawUnknown,
                 lidar_manager, fleet>>

get_all_berthing_data ==
  /\ response' = [kind |-> "all_http", result |-> AllHttp(lidar_manager)]
  /\ UNCHANGED <<session, pc, jt, pre, ret, stops, codec, sawUnknown,
                 lidar_manager, fleet>>

NextAll == get_all_berthing_data_core \/ get_all_berthing_data
SpecAll == InitAll /\ [][NextAll]_vars

(* ------------ get_berthing_history, berthing_data.py 81-146 ------------ *)
\* a point of the distance history is a pair <<timestamp, distance>>, the
\* timestamp in seconds; the differences of the distances are no odd
\* multiple of half a time difference, so no speed lies halfway
HistTimes     == {10, 13}
HistDistances == {30000, 45000, 45007}
HistPoints    == HistTimes \X HistDistances
Histories     == UNION {[1..n -> HistPoints] : n \in 0..MaxHistory}
Limits        == 0..(MaxHistory + 1)

InitHistory ==
  /\ InitSession
  /\ response = NoResponse
  /\ \E stored \in SensorIds, h \in Histories :
       lidar_manager =
         [vessel_speed_calculators |->
            [id \in SensorIds |->
               IF id = stored THEN [present |-> TRUE, distance_history |-> h]
                              ELSE Absent]]

Min(a, b) == IF a < b THEN a ELSE b
Max(a, b) == IF a > b THEN a ELSE b
\* Python's seq[i:] : a negative index counts from the end, and an index
\* beyond either end is clipped
SliceFrom(seq, i) ==
  LET n     == Len(seq)
      start == IF i < 0 THEN Max(n + i, 0) ELSE Min(i, n)
  IN  SubSeq(seq, start + 1, n)

\* lines 109-111
Limited(history, limit) ==
  IF Len(history) > limit THEN SliceFrom(history, 0 - limit) ELSE history

\* round() of the quotient num / den of two integers, den > 0, in the
\* speed unit (ten units per 0.1 mm/s)
RoundQuot(num, den) == 10 * ((2 * num + den) \div (2 * den))

\* a point whose speed is taken over the absolute elapsed time, so that a
\* step back in time yields a speed
HistoryPoint_absElapsed(history, i) ==
  LET timestamp == history[i][1]
      distance  == history[i][2]
      dt        == IF i > 1 THEN Abs(timestamp - history[i - 1][1]) ELSE 0
      speed     == IF i > 1 /\ dt > 0
                     THEN RoundQuot(distance - history[i - 1][2], dt)
                     ELSE 0
  IN  [timestamp |-> timestamp, distance |-> Round(distance),
       speed |-> speed, speed_mm_s |-> speed]

\* lines 115-132: the i-th point of the answer
HistoryPoint(history, i) ==
  LET timestamp == history[i][1]
      distance  == history[i][2]
      dt        == IF i > 1 THEN timestamp - history[i - 1][1] ELSE 0
      speed     == IF i > 1 /\ dt > 0
                     THEN RoundQuot(distance - history[i - 1][2], dt)
                     ELSE 0
  IN  [timestamp |-> timestamp, distance |-> Round(distance),
       speed |-> speed, speed_mm_s |-> speed]

\* lines 96-140
History(mgr, sensor_id, limit) ==
  LET calculator == mgr.vessel_speed_calculators[sensor_id]
  IN  IF ~calculator.present THEN [code |-> 404, history |-> <<>>]
      ELSE
        LET history      == Limited(calculator.distance_history, limit)
            history_data == [i \in 1..Len(history) |-> HistoryPoint(history, i)]
        IN  [code |-> 200, sensor_id |-> sensor_id,
             history |-> history_data, count |-> Len(history_data),
             oldest_timestamp |-> IF history_data # <<>>
                                    THEN history_data[1].timestamp ELSE 0,
             latest_timestamp |-> IF history_data # <<>>
                                    THEN history_data[Len(history_data)].timestamp
                                    ELSE 0]

get_berthing_history ==
  /\ \E sensor_id \in SensorIds, limit \in Limits :
       response' = [kind |-> "history", sensor_id |-> sensor_id,
                    limit |-> limit,
                    result |-> History(lidar_manager, sensor_id, limit)]
  /\ UNCHANGED <<session, pc, jt, pre, ret, stops, codec, sawUnknown,
                 lidar_manager, fleet>>

SpecHistory == InitHistory /\ [][get_berthing_history]_vars

(* ============ several sessions on one host (SpecFleet) ================= *)
(* The manager holds one FakeLidarSimulator per sensor.  Here each session  *)
(* of the fleet runs connect (lines 32-61) bind by bind and disconnect      *)
(* (lines 63-76) in one step; no session streams, and the listener is kept  *)
(* as a flag.  The host's port table is what the sockets of the fleet hold: *)
(* no other program binds a port in this specification.  A socket object    *)
(* that connect replaces is dropped and releases its port.                  *)
FleetDataPorts == {56001, 56101}
FleetCmdPorts  == {56002, 56102}

\* the ports of the local address that sockets of the fleet are bound to
PortsHeld ==
  {fleet[t].dataPort : t \in {x \in Sessions : fleet[x].dataSocket = "bound"}}
    \cup {FIXED_CMD_PORT : t \in {x \in Sessions : fleet[x].cmdSocket = "bound"}}

FleetStep(s, rec) ==
  /\ fleet' = [fleet EXCEPT ![s] = rec]
  /\ UNCHANGED <<session, pc, jt, pre, ret, stops, codec, sawUnknown,
                 lidar_manager, response>>

\* lines 34-41
fleet_connect_store(s) ==
  /\ fleet[s].pc = "idle"
  /\ \E ip \in IPs, dp \in FleetDataPorts, cp \in FleetCmdPorts :
       FleetStep(s, [fleet[s] EXCEPT !.computerIP = ip, !.dataPort = dp,
                                     !.cmdPort = cp, !.dataSocket = "open",
                                     !.cmdSocket = "open", !.pc = "c_bindData",
                                     !.ret = "none"])

\* line 45; bind raises when the port is in use, and lines 58-61 return 0
fleet_connect_bindData(s) ==
  /\ fleet[s].pc = "c_bindData"
  /\ FleetStep(s, IF fleet[s].dataPort \notin PortsHeld
                    THEN [fleet[s] EXCEPT !.dataSocket = "bound",
                                          !.pc = "c_bindCmd"]
                    ELSE [fleet[s] EXCEPT !.pc = "idle",
                                          !.ret = "connect_fail"])

\* line 47: the command socket is bound to port 65000
fleet_connect_bindCmd(s) ==
  /\ fleet[s].pc = "c_bindCmd"
  /\ FleetStep(s, IF FIXED_CMD_PORT \notin PortsHeld
                    THEN [fleet[s] EXCEPT !.cmdSocket = "bound",
                                          !.pc = "c_setConn"]
                    ELSE [fleet[s] EXCEPT !.pc = "idle",
                                          !.ret = "connect_fail"])

\* lines 48-57
fleet_connect_finish(s) ==
  /\ fleet[s].pc = "c_setConn"
  /\ FleetStep(s, [fleet[s] EXCEPT !.isConnected = TRUE,
                                   !.command_running = TRUE,
                                   !.listening = TRUE, !.pc = "idle",
                                   !.ret = "connect_ok"])

\* lines 63-76: the listener sees the flag within its receive timeout and
\* has ended when the join of line 70 returns
fleet_disconnect(s) ==
  /\ fleet[s].pc = "idle"
  /\ FleetStep(s, [fleet[s] EXCEPT
                     !.running = FALSE, !.command_running = FALSE,
                     !.listening = FALSE,
                     !.dataSocket = IF @ = "None" THEN "None" ELSE "closed",
                     !.cmdSocket = IF @ = "None" THEN "None" ELSE "closed",
                     !.isConnected = FALSE, !.isData = FALSE,
                     !.ret = "disconnect_ok"])

NextFleet ==
  \E s \in Sessions :
    \/ fleet_connect_store(s) \/ fleet_connect_bindData(s)
    \/ fleet_connect_bindCmd(s) \/ fleet_connect_finish(s)
    \/ fleet_disconnect(s)

SpecFleet == Init /\ [][NextFleet]_vars

(* ======================= properties of the session ===================== *)

\* C1: once dataStop has returned, no producer loop of the session sends a
\* frame until dataStart_RT_B is invoked again.
C1_NoFrameAfterStop ==
  [][\A p \in Producers : FrameSent(p) => ~stopReturned]_vars

\* C2: a dataStart_RT_B on a session that is already streaming starts no
\* second producer loop: at most one producer loop is alive per session.
C2_AtMostOneProducer == Cardinality(AliveProducers) <= 1

\* the caller's connect() returns 0 in this step
ConnectFailed ==
  pc[Caller] \in {"c_bindData", "c_bindCmd"} /\ pc'[Caller] = "idle"

\* C3: a connect() that fails on a bind leaves no partial side effects: the
\* sockets it opened are closed (or the session refers to the ones it had),
\* no listener was started, and flag and addresses are as before the call.
C3_FailedConnectNoSideEffects ==
  [][ConnectFailed =>
       /\ isConnected' = pre.isConnected
       /\ addrs' = pre.addrs
       /\ AliveListeners' = pre.listeners
       /\ \/ socks' = pre.socks
          \/ dataSocket' = "closed" /\ cmdSocket' = "closed"]_vars

\* the caller's disconnect() returns in this step
DisconnectReturned == pc[Caller] = "d_setData" /\ pc'[Caller] = "idle"

\* C4: when disconnect() returns both sockets are closed, no listener loop
\* and no producer loop is alive, and the session is neither connected nor
\* streaming.
C4_DisconnectStopsEverything ==
  [][DisconnectReturned =>
       /\ dataSocket' \in {"None", "closed"} /\ cmdSocket' \in {"None", "closed"}
       /\ AliveListeners' = {} /\ AliveProducers' = {}
       /\ ~isConnected' /\ ~isData']_vars

\* executor e takes a step inside dataStop / dataStart_RT_B
StopStep(e)  == pc[e] \in StopPcs /\ pc'[e] # pc[e]
StartStep(e) == pc[e] \in StartPcs /\ pc'[e] # pc[e]
\* executor e leaves the method it runs by an exception
Raised(e) == IF e = Caller THEN ret' = "raised" ELSE pc'[e] = "dead"

\* the session is idle: not streaming, and no dataStart_RT_B under way
SessionIdle ==
  /\ ~isData /\ ~running
  /\ \A x \in Executors : pc[x] \notin StartPcs

DisconnectPcs == {"d_setRun", "d_setCmdRun", "d_joinData", "d_waitData",
                  "d_joinCmd", "d_waitCmd", "d_closeData", "d_closeCmd",
                  "d_setConn", "d_setData"}

\* the caller entered disconnect() on a session whose connected flag was off
\* (recorded in ret while the call runs)
DisconnectedCall == pc[Caller] \in DisconnectPcs /\ ret = "none_disconnected"

\* C6: disconnect() on a session that is already Disconnected raises no
\* error, and when it returns the session is Disconnected, not streaming,
\* and no loop is running.
C6_DisconnectIdempotent ==
  [][DisconnectedCall /\ pc'[Caller] = "idle" =>
       /\ ret' # "raised"
       /\ ~isConnected' /\ ~isData'
       /\ AliveListeners' = {} /\ AliveProducers' = {}]_vars

\* the caller's connect() returns 1 in this step
ConnectSucceeded == pc[Caller] = "c_spawn" /\ pc'[Caller] = "idle"

\* C7: a successful connect() on a Disconnected session leaves it
\* Connected(idle): connected flag set, both sockets bound, exactly one
\* listener loop running, no producer loop running, not streaming.
C7_ConnectGivesConnectedIdle ==
  [][ConnectSucceeded /\ ~pre.isConnected =>
       /\ isConnected' /\ dataSocket' = "bound" /\ cmdSocket' = "bound"
       /\ Cardinality(AliveListeners') = 1
       /\ AliveProducers' = {} /\ ~isData']_vars

\* C8: dataStart_RT_B on a Disconnected session returns at once and changes
\* nothing: no producer thread is created, flags and sockets stay as they are.
C8_StartWhenDisconnectedIgnored ==
  [][\A e \in Executors :
       pc[e] = "s_check" /\ pc'[e] # pc[e] /\ ~isConnected =>
         /\ UNCHANGED session
         /\ pc'[e] = ReturnTo(e)
         /\ \A p \in Producers : ~FrameSent(p)]_vars

\* the caller's dataStart_RT_B returned at its guard, after a disconnect
C8_Witness ==
  /\ ret = "dataStart_ignored" /\ pc[Caller] = "idle"
  /\ ~isConnected /\ dataSocket = "closed"

\* C10: a command received over the wire leaves the session as the direct
\* call does.  The listener runs the statements of the direct call; the
\* direct call returns control to its caller and never touches the listener
\* loop, so the listener must be back in its loop after the transition.
C10_WireEqualsDirect ==
  [][\A l \in Listeners :
       StartStep(l) \/ StopStep(l) =>
         pc'[l] \in StartPcs \cup StopPcs \cup {"l_loop"}]_vars


\* a listener takes an unrecognised datagram off the command socket.  (A
\* receive that times out on the bound socket is the same transition.)
UnknownReceived(l) ==
  /\ pc[l] = "l_recv" /\ pc'[l] # "l_recv"
  /\ cmdSocket = "bound"
  /\ l \in sawUnknown' /\ pc'[l] \notin {"s_check", "k_setData"}

\* a listener takes a Start or Stop command off the socket and enters the
\* method the command stands for
CommandDispatched(l) ==
  listener_recvDatagram(l) /\ pc'[l] \in {"s_check", "k_setData"}

\* C11: a datagram that is neither Start nor Stop is ignored by the command
\* listener: the session (flags, sockets, addresses, threads) is unchanged,
\* the listener is back at the top of its loop and not terminated, and at
\* its next receive a recognised command is still dispatched.
C11_UnknownIgnored ==
  /\ [][\A l \in Listeners :
          UnknownReceived(l) =>
            /\ UNCHANGED session
            /\ pc'[l] = "l_loop"
            /\ \A e \in Executors \ {l} : pc'[e] = pc[e]]_vars
  /\ [](\A l \in Listeners :
          l \in sawUnknown /\ pc[l] = "l_recv" /\ cmdSocket = "bound"
            => ENABLED CommandDispatched(l))

\* a listener that received an unrecognised datagram earlier is now
\* executing the Start command that arrived after it
C11_Witness ==
  \E l \in Listeners :
    /\ l \in sawUnknown /\ pc[l] = "s_setData"
    /\ command_running /\ cmdSocket = "bound"

\* producer p's send raised and its loop ended (lines 137-140)
SendFailed(p) == prod[p] = "send" /\ prod'[p] = "dead"

\* C12: a send that fails inside the producer loop ends that loop, which
\* never runs again (no retry); the step touches nothing else: the command
\* listener and every other thread are where they were, flags and sockets
\* are unchanged.
C12_SendFailureEndsProducer ==
  [][\A p \in Producers :
       /\ (prod[p] = "send" /\ prod'[p] # prod[p]
             /\ dataSocket \notin {"open", "bound"}) => SendFailed(p)
       /\ SendFailed(p) =>
             /\ \A q \in Producers \ {p} : prod'[q] = prod[q]
             /\ pc' = pc /\ AliveListeners' = AliveListeners
             /\ UNCHANGED <<flags, addrs, socks, data_thread, command_thread>>
       /\ prod[p] = "dead" => prod'[p] \in {"dead", "created"}]_vars

\* the producer the caller started has ended on a failed send while the
\* session still says it is streaming, and the listener is alive
C12_Witness ==
  /\ pc[Caller] = "idle" /\ ret = "dataStart_ok"
  /\ data_thread # NoThread /\ prod[data_thread] = "dead"
  /\ isConnected /\ isData /\ running /\ dataSocket = "bound"
  /\ command_thread # NoThread /\ pc[command_thread] = "l_recv"

\* the caller's connect() returns 1 in this step; it was invoked right after
\* a disconnect() that had returned, and stored the addresses the session
\* had before
ReconnectSucceeded ==
  /\ ConnectSucceeded
  /\ ret = "none_afterDisconnect" /\ addrs = pre.addrs

\* C13: disconnect() followed immediately by connect() with the same
\* parameters leaves the session Connected(idle): connected flag set, both
\* sockets bound, exactly one listener loop running, not streaming, and no
\* producer loop left over from before the disconnect.
C13_ReconnectGivesConnectedIdle ==
  [][ReconnectSucceeded =>
       /\ ret' = "connect_ok" /\ isConnected'
       /\ dataSocket' = "bound" /\ cmdSocket' = "bound"
       /\ Cardinality(AliveListeners') = 1
       /\ AliveProducers' = {} /\ ~isData']_vars

\* a listener takes a Start command off the socket and enters dataStart_RT_B
StartDispatched(l) == listener_recvDatagram(l) /\ pc'[l] = "s_check"

C26_StreamingImpliesConnected == isData => isConnected

\* no operation is under way: the caller is between calls and every
\* listener is in its loop (or has ended), not inside a command
Quiescent ==
  /\ pc[Caller] = "idle"
  /\ \A l \in Listeners : pc[l] \in {"dead", "l_loop", "l_recv"}

\* C27: the streaming state matches the producer: outside the middle of an
\* operation, a session whose flags say it is streaming (_isData and
\* _running both set) has a producer loop alive; in particular a producer
\* that ended on a send error does not leave the flags set.
C27_StreamingMatchesProducer ==
  Quiescent /\ isData /\ running => AliveProducers # {}

\* The moment of a stop signal is the write that completes it.  A loop is
\* alive at that moment if it is alive in the state the write starts from.
\* disconnect() is at line 66, about to clear _command_running
ListenerSignalled == pc[Caller] = "d_setCmdRun"
\* dataStop is at line 116 (with _isData cleared), or disconnect() at line
\* 65, about to clear _running
ProducerSignalled ==
  \/ \E e \in Executors : pc[e] = "k_setRun"
  \/ pc[Caller] = "d_setRun"

\* every listener loop alive at the moment of its signal eventually exits
ListenersStopOnSignal ==
  \A l \in Listeners : (ListenerSignalled /\ LisAlive(l)) ~> ~LisAlive(l)
\* every producer loop alive at the moment of its signal eventually exits
ProducersStopOnSignal ==
  \A p \in Producers : (ProducerSignalled /\ ProdAlive(p)) ~> ~ProdAlive(p)

\* C22: under fair scheduling both loops stop on their stop signal: once
\* disconnect() has cleared _command_running every listener loop alive at
\* that moment eventually exits, whether or not a datagram arrives, and
\* once dataStop or disconnect() has cleared the producer's flags every
\* producer loop alive at that moment eventually exits.
C22_LoopsStopOnSignal == ListenersStopOnSignal /\ ProducersStopOnSignal

(* ===================== properties of the command matcher =============== *)
HasPrefix(data, cmd) ==
  /\ Len(data) >= CMD_PREFIX_LEN
  /\ \A i \in 1..CMD_PREFIX_LEN : data[i] = cmd[i]

\* C9: a datagram is matched to Start iff its first 11 bytes are the start
\* constant, to Stop iff they are the stop constant, to Unknown otherwise
\* (so whenever it is shorter than 11 bytes); what follows the 11th byte
\* does not change the result.
C9_CommandMatching ==
  /\ rxKind = "Start" <=> HasPrefix(rxData, CMD_DATA_START)
  /\ rxKind = "Stop" <=> HasPrefix(rxData, CMD_DATA_STOP)
  /\ rxKind = "Unknown" <=>
       ~HasPrefix(rxData, CMD_DATA_START) /\ ~HasPrefix(rxData, CMD_DATA_STOP)
  /\ Len(rxData) < CMD_PREFIX_LEN => rxKind = "Unknown"
  /\ \A t \in TrailSeqs :
       Len(rxData) >= CMD_PREFIX_LEN => MatchCommand(rxData \o t) = rxKind

\* a stop command followed by a trailing byte was matched
C9_Witness ==
  /\ Len(rxData) > CMD_PREFIX_LEN
  /\ HasPrefix(rxData, CMD_DATA_STOP)
  /\ rxKind = "Stop"

(* ====================== properties of the berth summary ================ *)
\* the sensors the summary takes into account: in berthing mode, with stats
Included(mgr) ==
  {id \in mgr.berthing_mode_sensors : mgr.berthing_mode_center_stats[id].present}
AnyMoving(mgr) ==
  \E id \in Included(mgr) : mgr.berthing_mode_center_stats[id].is_vessel_moving
PositiveDistances(mgr) ==
  {mgr.berthing_mode_center_stats[id].stable_distance : id \in Included(mgr)}
    \ {d \in SummaryDistances : d <= 0}
\* the least valid distance, Inf when there is none
MinPositive(mgr) ==
  IF PositiveDistances(mgr) = {} THEN Inf
  ELSE CHOOSE d \in PositiveDistances(mgr) :
         \A x \in PositiveDistances(mgr) : d <= x
Summarised == response.kind = "summary"

\* C14: the overall status follows the decision table: inactive berth gives
\* inactive; else with a sensor moving, min_distance < 5.0 gives
\* final_approach, 5.0 <= min_distance < 20.0 approaching, anything else
\* monitoring; else min_distance < 1.0 gives berthed, anything else standby.
C14_StatusDecisionTable ==
  Summarised =>
    LET active == lidar_manager.berthing_mode_active
        moving == AnyMoving(lidar_manager)
        m      == MinPositive(lidar_manager)
        st     == response.overall_status
    IN  /\ ~active => st = "inactive"
        /\ active /\ moving /\ m < FINAL_APPROACH_BELOW => st = "final_approach"
        /\ active /\ moving /\ FINAL_APPROACH_BELOW <= m /\ m < APPROACHING_BELOW
             => st = "approaching"
        /\ active /\ moving /\ ~(m < APPROACHING_BELOW) => st = "monitoring"
        /\ active /\ ~moving /\ m < BERTHED_BELOW => st = "berthed"
        /\ active /\ ~moving /\ ~(m < BERTHED_BELOW) => st = "standby"

\* active berth, a moving sensor at 4.5 m: final_approach
C14_Witness ==
  /\ Summarised /\ lidar_manager.berthing_mode_active
  /\ \E id \in Included(lidar_manager) :
       /\ lidar_manager.berthing_mode_center_stats[id].stable_distance = 45000
       /\ lidar_manager.berthing_mode_center_stats[id].is_vessel_moving
  /\ response.overall_status = "final_approach"

\* C15: with the berth active and no sensor reporting a positive distance
\* (no sensors, or all distances <= 0) the overall status is standby
\* whatever the moving flags are, and min_distance is reported as null.
C15_NoValidDistanceStandby ==
  Summarised /\ lidar_manager.berthing_mode_active
    /\ PositiveDistances(lidar_manager) = {} =>
      /\ response.overall_status = "standby"
      /\ response.min_distance = None

\* C16: min_distance is the minimum over the strictly positive distances
\* only (a sensor reporting 0 or less never lowers it) and is reported
\* rounded to the millimetre, null when there is none; any_moving is the OR
\* of the moving flags of all sensors, those without a valid distance too.
C16_MinOverPositiveDistances ==
  Summarised =>
    LET acc == SummaryLoop(lidar_manager, lidar_manager.berthing_mode_sensors,
                           SummaryStart)
    IN  /\ acc.min_distance = MinPositive(lidar_manager)
        /\ acc.any_moving = AnyMoving(lidar_manager)
        /\ response.min_distance =
             IF PositiveDistances(lidar_manager) = {} THEN None
             ELSE Round(MinPositive(lidar_manager))

\* two sensors: one reports 0 (no valid reading) and does not move, the
\* other reports 15.0 m and moves; min_distance is 15.0, status approaching
C16_Witness ==
  /\ Summarised /\ lidar_manager.berthing_mode_active
  /\ \E a, b \in Included(lidar_manager) :
       /\ lidar_manager.berthing_mode_center_stats[a].stable_distance = 0
       /\ ~lidar_manager.berthing_mode_center_stats[a].is_vessel_moving
       /\ lidar_manager.berthing_mode_center_stats[b].stable_distance = 150000
       /\ lidar_manager.berthing_mode_center_stats[b].is_vessel_moving
  /\ response.min_distance = 150000
  /\ response.overall_status = "approaching"

\* the magnitudes of the speeds of the sensors the summary takes into account
SpeedMagnitudes(mgr) ==
  {Abs(mgr.berthing_mode_center_stats[id].speed_mps) : id \in Included(mgr)}

\* C28: max_speed_mm_s is the largest absolute speed over all berthing-mode
\* sensors that have stats, in mm/s (approach and departure speeds compared
\* by magnitude); it is 0 when there is no such sensor; a sensor whose
\* distance is not positive, and so does not count for min_distance, counts
\* for it.
C28_MaxSpeedOverAllSensors ==
  Summarised =>
    LET speeds == SpeedMagnitudes(lidar_manager)
    IN  /\ speeds = {} => response.max_speed_mm_s = 0
        /\ speeds # {} =>
             /\ response.max_speed_mm_s \in {Round(v) : v \in speeds}
             /\ \A v \in speeds : Round(v) <= response.max_speed_mm_s

\* two sensors: one without a valid distance approaches at 0.6 m/s, the
\* other, at 4.5 m, departs at 0.1 m/s; the summary reports 600 mm/s and a
\* min_distance of 4.5 m
C28_Witness ==
  /\ Summarised
  /\ \E a, b \in Included(lidar_manager) :
       /\ lidar_manager.berthing_mode_center_stats[a].stable_distance = 0
       /\ lidar_manager.berthing_mode_center_stats[a].speed_mps = -60000
       /\ lidar_manager.berthing_mode_center_stats[b].stable_distance = 45000
       /\ lidar_manager.berthing_mode_center_stats[b].speed_mps = 10000
  /\ response.min_distance = 45000
  /\ response.max_speed_mm_s = 60000

(* ==================== properties of the per-sensor view ================ *)
\* a per-sensor answer is there; the sensor asked for and what is stored
\* for it (the defaults when nothing is stored)
Answered == response.kind \in {"fetch", "http"}
StoredStats(id) ==
  IF lidar_manager.sensor_sync_data[id].present
    THEN lidar_manager.sensor_sync_data[id] ELSE DefaultStats
Registered(id) == id \in lidar_manager.sensors
Streaming(id)  == id \in lidar_manager.stream_active
\* the answer carries measurements
HasMeasurements == response.result.body.status = "active"
RefusalFields   == {"sensor_id", "status", "message"}

\* C17: the direction is stationary whenever is_moving is false, whatever
\* the speed; when is_moving is true it is approaching for a negative
\* speed, departing for a positive one and lateral for speed exactly zero.
C17_DirectionFromMovingAndSpeed ==
  Answered /\ HasMeasurements =>
    LET stats == StoredStats(response.sensor_id)
        dir   == response.result.body.direction
    IN  /\ ~stats.is_vessel_moving => dir = "stationary"
        /\ stats.is_vessel_moving /\ stats.speed_mps < 0 => dir = "approaching"
        /\ stats.is_vessel_moving /\ stats.speed_mps > 0 => dir = "departing"
        /\ stats.is_vessel_moving /\ stats.speed_mps = 0 => dir = "lateral"

\* a sensor that is not moving but has a non-zero speed stored is stationary
C17_Witness ==
  /\ response.kind = "fetch" /\ HasMeasurements
  /\ ~StoredStats(response.sensor_id).is_vessel_moving
  /\ StoredStats(response.sensor_id).speed_mps = -60000
  /\ response.result.body.direction = "stationary"

\* C18: fetching one sensor answers not_found for an id that is not
\* registered and stream_inactive for a registered sensor whose stream is
\* not active, in both cases without raising and without any measurement
\* field; measurements come only with status active, for a registered
\* sensor with an active stream.  The endpoint answers 404 for not_found
\* and 400 for stream_inactive.
C18_StructuredRefusals ==
  Answered =>
    LET id   == response.sensor_id
        res  == response.result
        body == response.result.body
    IN  /\ ~Registered(id) =>
             /\ body.status = "not_found" /\ DOMAIN body = RefusalFields
             /\ IF response.kind = "fetch" THEN ~res.raised ELSE res.code = 404
        /\ Registered(id) /\ ~Streaming(id) =>
             /\ body.status = "stream_inactive" /\ DOMAIN body = RefusalFields
             /\ IF response.kind = "fetch" THEN ~res.raised ELSE res.code = 400
        /\ HasMeasurements => Registered(id) /\ Streaming(id)
        /\ response.kind = "http" /\ res.code = 200 => HasMeasurements

\* the endpoint answered 400 for a registered sensor that has measurements
\* stored but no active stream
C18_Witness ==
  /\ response.kind = "http" /\ response.result.code = 400
  /\ Registered(response.sensor_id)
  /\ lidar_manager.sensor_sync_data[response.sensor_id].present
  /\ lidar_manager.sensor_sync_data[response.sensor_id].stable_distance = 45000

\* C25: in the per-sensor view the millimetre figures are the metre
\* figures scaled by 1000 (here: the same number of units): distance_mm is
\* distance, speed_mm_s is speed, for every sensor state, so a non-zero
\* speed never comes with a speed_mm_s of zero.
C25_MillimetresAreScaledMetres ==
  Answered /\ HasMeasurements =>
    LET body == response.result.body
    IN  /\ body.distance_mm = body.distance
        /\ body.speed_mm_s = body.speed
        /\ body.speed # 0 => body.speed_mm_s # 0

(* ==================== properties of the all-sensors view =============== *)
AnsweredAll == response.kind \in {"all_core", "all_http"}
\* fetching this sensor's data fails
FetchFails(id) == Fetch(lidar_manager, id).raised
\* fetching this sensor's data gives measurements
FetchGives(id) ==
  ~FetchFails(id) /\ Fetch(lidar_manager, id).body.status = "active"

\* C19: in the all-sensors view a failing fetch is confined to its sensor:
\* that sensor's entry has status error, every other berthing-mode sensor
\* with an active stream has its own entry (its measurements if the fetch
\* gives them), sensors not in berthing mode or without an active stream
\* have none, and count is the number of entries.
C19_FailureConfinedToSensor ==
  AnsweredAll =>
    LET entries == response.result.sensors
    IN  /\ DOMAIN entries =
             {id \in SensorIds : /\ id \in lidar_manager.berthing_mode_sensors
                                 /\ id \in lidar_manager.stream_active}
        /\ \A id \in DOMAIN entries :
             /\ entries[id].sensor_id = id
             /\ FetchFails(id) => entries[id].status = "error"
             /\ FetchGives(id) => entries[id] = Fetch(lidar_manager, id).body
        /\ response.result.count = Cardinality(DOMAIN entries)

\* two sensors in the view: the fetch of one failed, the other is reported
\* with its measurements
C19_Witness ==
  /\ response.kind = "all_core" /\ response.result.count = 2
  /\ \E bad, good \in DOMAIN response.result.sensors :
       /\ FetchFails(bad) /\ response.result.sensors[bad].status = "error"
       /\ FetchGives(good)
       /\ response.result.sensors[good].distance = 45000

(* ===================== properties of the history view ================== *)
\* the history endpoint answered for a sensor that has a calculator
HistoryAnswered == response.kind = "history" /\ response.result.code = 200
StoredHistory ==
  lidar_manager.vessel_speed_calculators[response.sensor_id].distance_history

\* C20: the history endpoint returns at most limit points for every
\* limit >= 0, limit = 0 included, and the points returned are the most
\* recent ones of the sensor's distance history in their original order.
C20_AtMostLimitMostRecent ==
  HistoryAnswered /\ response.limit >= 0 =>
    LET points == response.result.history
        n      == Len(StoredHistory)
        k      == Len(points)
    IN  /\ k <= response.limit
        /\ k = Min(response.limit, n)
        /\ \A i \in 1..k :
             /\ points[i].timestamp = StoredHistory[n - k + i][1]
             /\ points[i].distance = Round(StoredHistory[n - k + i][2])

\* v, in the speed unit, is the quotient dd / dt (0.1 mm over seconds)
\* rounded to the nearest 0.1 mm/s
IsRoundedQuotient(v, dd, dt) ==
  /\ v % 10 = 0
  /\ 2 * Abs((v \div 10) * dt - dd) <= dt

\* C24: in the history endpoint the speed of a returned point is
\* (d_i - d_(i-1)) / (t_i - t_(i-1)) against the previous returned point
\* when t_i > t_(i-1), and 0 when there is no previous returned point or the
\* elapsed time is zero or negative; the endpoint answers for every history
\* (no division by zero).
C24_SpeedBetweenReturnedPoints ==
  /\ response.kind = "history" =>
        response.result.code =
          IF lidar_manager.vessel_speed_calculators[response.sensor_id].present
            THEN 200 ELSE 404
  /\ HistoryAnswered =>
        LET points == response.result.history
            n      == Len(StoredHistory)
            k      == Len(points)
        IN  \A i \in 1..k :
              LET cur  == StoredHistory[n - k + i]
                  prev == StoredHistory[n - k + i - 1]
              IN  /\ points[i].speed_mm_s = points[i].speed
                  /\ IF i > 1 /\ cur[1] > prev[1]
                       THEN IsRoundedQuotient(points[i].speed,
                                              cur[2] - prev[2],
                                              cur[1] - prev[1])
                       ELSE points[i].speed = 0

\* three points returned: the second lies 3 s before the first and has
\* speed 0 although the distance changed, the third lies 3 s and 1.5007 m
\* after the second and has speed 500.2 mm/s
C24_Witness ==
  /\ HistoryAnswered /\ Len(response.result.history) = 3
  /\ StoredHistory[1][1] = 13 /\ StoredHistory[1][2] = 45000
  /\ StoredHistory[2] = <<10, 30000>> /\ StoredHistory[3] = <<13, 45007>>
  /\ response.result.history[2].speed = 0
  /\ response.result.history[3].speed = 50020

(* ====================== properties of the fleet ======================== *)
\* the connect() of session s returns 0 in this step
FleetConnectFailed(s) ==
  fleet[s].pc \in {"c_bindData", "c_bindCmd"} /\ fleet'[s].pc = "idle"
\* the ports session s was given differ from those given to every other
\* session
DistinctPorts(s) ==
  \A t \in Sessions \ {s} :
    {fleet[s].dataPort, fleet[s].cmdPort}
      \cap {fleet[t].dataPort, fleet[t].cmdPort} = {}

\* C21: sessions given distinct data and command ports on the same local
\* address can all be Connected at the same time: the connect() of a session
\* whose ports differ from every other session's never fails because of
\* what another session has bound.
C21_DistinctPortsBothConnect ==
  [][\A s \in Sessions : DistinctPorts(s) => ~FleetConnectFailed(s)]_vars

====
